---- MODULE Spec2Model ----
(***************************************************************************)
(* Model of PyUpdater (src/Updater.py): the object's state, the file       *)
(* system and package registry it acts on through pip, and one action per  *)
(* public method.  update_all is split at its loop so that the order of    *)
(* its collaborator calls is visible.  Every call records what it was      *)
(* given, which pip commands it ran and how it ended.                      *)
(***************************************************************************)
EXTENDS Integers, Sequences, FiniteSets, TLC

\* ------------------------------------------------------------------ bounds
\* number of method calls the caller makes on one PyUpdater object
MaxOps == 2
\* number of seconds the wall clock can advance
MaxClock == 1

\* ---------------------------------------------------------------- universe
Packages == {"requests", "flask"}
OldVersion == "1.0"
NewVersion == "2.0"
Versions == {OldVersion, NewVersion}
\* a package that is not installed / a line that is not in a file
NoVersion == "-"
\* Python's None
None == "None"

\* file names the caller passes explicitly
ExplicitNames == {"backup.txt", "requirements.txt", "requirements_updated.txt"}
\* datetime.now().strftime("%Y%m%d_%H%M%S") at one-second granularity
strftime(t) == ToString(t)
TimestampName(t) == "backup_env_" \o strftime(t) \o ".txt"
FileNames == ExplicitNames \cup {TimestampName(t) : t \in 0..MaxClock}

\* the text of a requirements-style file: one name==version line per package
EmptyText == [p \in Packages |-> NoVersion]
NoFile == [exists |-> FALSE, text |-> EmptyText]
FileOf(text) == [exists |-> TRUE, text |-> text]

\* how one subprocess.run(..., check=True) can end: exit status zero, exit
\* status non-zero (CalledProcessError), the process cannot be started (OSError)
RunOutcomes == {"ok", "nonzero", "oserror"}
\* how open(filename, "w") followed by f.write(...) can end
WriteOutcomes == {"ok", "open_fails", "write_fails"}

Return(op, v) == [op |-> op, kind |-> "return", val |-> v]
Raise(op, e) == [op |-> op, kind |-> "raise", val |-> e]

VARIABLES
    last_backup,    \* self.last_backup
    files,          \* the file system: file name -> NoFile or FileOf(text)
    registry,       \* installed packages: package -> version
    clock,          \* wall clock, in seconds, as last read by datetime.now()
    pc,             \* position of update_all: "idle" (not running) or "loop"
    outdated,       \* update_all's local: the inventory it obtained
    idx,            \* update_all's loop position in outdated
    export_requirements, \* update_all's argument
    want_rollback,  \* whether the caller of update_all wants automatic rollback;
                    \* update_all (line 181) has no parameter that receives
                    \* the wish, so no action reads it
    op,             \* the method most recently called by the caller
    args,           \* the arguments of that call
    result,         \* how the most recent call ended (value returned or raised)
    cmds,           \* pip invocations of the most recent call, in order
    updates,        \* update_package bodies run by the most recent call
    attempts,       \* names for which update_all evaluated self.update_package(...)
    registry0,      \* the registry when the most recent call began
    returned,       \* the list the most recent get_outdated_packages call returned
    packages,       \* update_from_file's local: the names read from the file
    stdout,         \* the list pip printed for the most recent inventory query
    target,         \* the lines of the file the most recent update_from_file read
    backups,        \* every create_backup call so far: the snapshot's file name,
                    \* whether pip froze and the file was written in full,
                    \* and the registry at that time
    nops            \* number of method calls made so far

vars == <<last_backup, files, registry, clock, pc, outdated, idx,
          export_requirements, want_rollback, op, args, result, cmds, updates,
          attempts, registry0, returned, packages, stdout, target, backups,
          nops>>

\* ------------------------------------------------------------ collaborator
list_command == <<"list", "--outdated", "--format=json">>
freeze_command == <<"freeze">>
bulk_install_command(filename) == <<"install", "-r", filename>>

IsInstall(argv) == argv[1] = "install" /\ argv[2] # "-r"
IsRestore(argv) == argv[1] = "install" /\ argv[2] = "-r"

\* the (name, version) a pinned requirement "name==version" denotes
PinOf(arg) ==
    CHOOSE nv \in Packages \X Versions : nv[1] \o "==" \o nv[2] = arg

\* the registry after pip ran argv and ended with out; a run that does not
\* exit zero leaves the registry as it was
Pip(argv, out, reg) ==
    IF out # "ok" THEN reg
    ELSE IF IsRestore(argv)
         THEN [p \in Packages |->
                  IF files[argv[3]].text[p] # NoVersion
                  THEN files[argv[3]].text[p] ELSE reg[p]]
    ELSE IF IsInstall(argv) /\ argv[2] = "--upgrade"
         THEN [reg EXCEPT ![argv[3]] = NewVersion]
    ELSE IF IsInstall(argv)
         THEN [reg EXCEPT ![PinOf(argv[2])[1]] = PinOf(argv[2])[2]]
    ELSE reg

Cmd(argv, out) == [argv |-> argv, out |-> out]

\* ------------------------------------------------------------------- state
InitWith(Registries) ==
    /\ last_backup = None
    /\ files = [f \in FileNames |-> NoFile]
    /\ registry \in Registries
    /\ clock = 0
    /\ pc = "idle"
    /\ outdated = <<>>
    /\ idx = 0
    /\ export_requirements = TRUE
    /\ want_rollback = FALSE
    /\ op = "__init__"
    /\ args = <<>>
    /\ result = Return("__init__", None)
    /\ cmds = <<>>
    /\ updates = <<>>
    /\ attempts = <<>>
    /\ registry0 = registry
    /\ returned = <<>>
    /\ packages = <<>>
    /\ stdout = <<>>
    /\ target = <<>>
    /\ backups = <<>>
    /\ nops = 0

\* every package of the universe is installed
Init == InitWith([Packages -> Versions])

\* the caller makes a new call, one of at most limit: the per-call history
\* starts afresh
Call(limit, name, a) ==
    /\ pc = "idle"
    /\ nops < limit
    /\ nops' = nops + 1
    /\ op' = name
    /\ args' = a
    /\ registry0' = registry

Begin(name, a) == Call(MaxOps, name, a)

\* update_all is not running: its frame (locals and arguments) does not exist
NoFrame ==
    /\ pc' = "idle"
    /\ outdated' = <<>>
    /\ idx' = 0
    /\ export_requirements' = TRUE
    /\ want_rollback' = FALSE

\* the call is neither get_outdated_packages nor update_from_file: it returns
\* no list and reads no target file
NoList ==
    /\ returned' = <<>>
    /\ packages' = <<>>
    /\ stdout' = <<>>
    /\ target' = <<>>

\* ---------------------------------------------------------- update_package
\* update_package_command with the --upgrade form issued for every version
update_package_command_always_upgrade(package_name, latest_version) ==
    <<"install", "--upgrade", package_name>>

\* lines 67-70
update_package_command(package_name, latest_version) ==
    IF latest_version = "latest"
    THEN <<"install", "--upgrade", package_name>>
    ELSE <<"install", package_name \o "==" \o latest_version>>

\* lines 72-77: True after exit zero, False on CalledProcessError; any other
\* exception of subprocess.run is not caught
update_package_result(out) ==
    CASE out = "ok" -> Return("update_package", "True")
      [] out = "nonzero" -> Return("update_package", "False")
      [] out = "oserror" -> Raise("update_package", "OSError")

\* the body of update_package run with the given arguments
update_package(package_name, current_version, latest_version, out, reg0) ==
    LET command == update_package_command(package_name, latest_version)
    IN [cmd |-> Cmd(command, out),
        res |-> update_package_result(out),
        reg |-> Pip(command, out, reg0)]

UpdatePackageCall(limit) ==
    \E package_name \in Packages, current_version \in {"any", OldVersion},
       latest_version \in Versions \cup {"latest"}, out \in RunOutcomes :
      LET r == update_package(package_name, current_version, latest_version, out,
                                registry)
      IN /\ Call(limit, "update_package",
                 <<package_name, current_version, latest_version>>)
         /\ registry' = r.reg
         /\ cmds' = <<r.cmd>>
         /\ updates' = <<[name |-> package_name, latest |-> latest_version,
                          res |-> r.res]>>
         /\ attempts' = <<>>
         /\ result' = r.res
         /\ NoFrame
         /\ NoList
         /\ UNCHANGED <<last_backup, files, clock, backups>>

UpdatePackage == UpdatePackageCall(MaxOps)

\* ----------------------------------------------------------- create_backup
\* lines 128-130: the file name given, or one derived from the wall clock
\* read at now
create_backup_filename(filename, now) ==
    IF filename = None THEN TimestampName(now) ELSE filename

\* open(filename, "w") truncates the file; a write that then fails leaves it
\* truncated
WriteFile(fs, filename, text, wr) ==
    CASE wr = "ok" -> [fs EXCEPT ![filename] = FileOf(text)]
      [] wr = "open_fails" -> fs
      [] wr = "write_fails" -> [fs EXCEPT ![filename] = FileOf(EmptyText)]

\* the command of get_outdated_packages pasted into create_backup
create_backup_command_pasted == list_command

\* lines 134-137: the command create_backup runs
create_backup_command == freeze_command

\* create_backup with self.last_backup assigned before the try block
create_backup_assign_first(filename, now, out, wr) ==
    LET name == create_backup_filename(filename, now)
        ok == out = "ok" /\ wr = "ok"
    IN [cmd |-> Cmd(create_backup_command, out),
        fs |-> IF out = "ok" THEN WriteFile(files, name, registry, wr) ELSE files,
        last |-> name,
        res |-> Return("create_backup", IF ok THEN name ELSE None)]

\* create_backup with the file written under a fixed name, whatever name was
\* derived and returned
create_backup_fixed_name(filename, now, out, wr) ==
    LET name == create_backup_filename(filename, now)
        ok == out = "ok" /\ wr = "ok"
    IN [cmd |-> Cmd(create_backup_command, out),
        fs |-> IF out = "ok" THEN WriteFile(files, "backup.txt", registry, wr)
               ELSE files,
        last |-> IF ok THEN name ELSE last_backup,
        res |-> Return("create_backup", IF ok THEN name ELSE None)]

\* lines 133-145: every exception is caught and None is returned;
\* self.last_backup is assigned only after the write
create_backup(filename, now, out, wr) ==
    LET name == create_backup_filename(filename, now)
        ok == out = "ok" /\ wr = "ok"
    IN [cmd |-> Cmd(create_backup_command, out),
        fs |-> IF out = "ok" THEN WriteFile(files, name, registry, wr) ELSE files,
        last |-> IF ok THEN name ELSE last_backup,
        res |-> Return("create_backup", IF ok THEN name ELSE None)]

CreateBackupCall(limit) ==
    \E filename \in {None, "backup.txt"}, now \in clock..MaxClock,
       out \in RunOutcomes, wr \in WriteOutcomes :
      LET r == create_backup(filename, now, out, wr)
      IN /\ Call(limit, "create_backup", <<filename>>)
         /\ now <= clock + 1
         /\ filename # None => now = clock
         /\ clock' = now
         /\ out # "ok" => wr = "ok"
         /\ cmds' = <<r.cmd>>
         /\ files' = r.fs
         /\ last_backup' = r.last
         /\ result' = r.res
         /\ backups' = Append(backups,
                [filename |-> create_backup_filename(filename, now),
                 ok |-> out = "ok" /\ wr = "ok", call |-> nops + 1,
                 reg |-> registry])
         /\ updates' = <<>>
         /\ attempts' = <<>>
         /\ NoFrame
         /\ NoList
         /\ UNCHANGED <<registry>>

CreateBackup == CreateBackupCall(MaxOps)

\* --------------------------------------------------- generate_requirements
\* lines 262-283: CalledProcessError and IOError (an alias of OSError, which
\* a process that cannot be started raises too) are both caught
generate_requirements(filename, out, wr, reg, fs) ==
    LET ok == out = "ok" /\ wr = "ok"
    IN [cmd |-> Cmd(freeze_command, out),
        fs |-> IF out = "ok" THEN WriteFile(fs, filename, reg, wr) ELSE fs,
        res |-> Return("generate_requirements", IF ok THEN "True" ELSE "False")]

GenerateRequirements ==
    \E filename \in {"requirements.txt", "backup.txt"},
       out \in RunOutcomes, wr \in WriteOutcomes :
      LET r == generate_requirements(filename, out, wr, registry, files)
      IN /\ Begin("generate_requirements", <<filename>>)
         /\ out # "ok" => wr = "ok"
         /\ cmds' = <<r.cmd>>
         /\ files' = r.fs
         /\ result' = r.res
         /\ updates' = <<>>
         /\ attempts' = <<>>
         /\ NoFrame
         /\ NoList
         /\ UNCHANGED <<last_backup, registry, clock, backups>>

\* ---------------------------------------------------------------- rollback
\* rollback with the exit status of pip ignored (check=False)
rollback_ignore_exit(backup_file, out) ==
    IF ~files[backup_file].exists
    THEN [cmds |-> <<>>, res |-> Return("rollback", "False"), reg |-> registry]
    ELSE LET command == bulk_install_command(backup_file)
         IN [cmds |-> <<Cmd(command, out)>>,
             res |-> IF out = "oserror" THEN Raise("rollback", "OSError")
                     ELSE Return("rollback", "True"),
             reg |-> Pip(command, out, registry)]

\* rollback that runs the command a second time when the first run fails
rollback_retry(backup_file, out) ==
    IF ~files[backup_file].exists
    THEN [cmds |-> <<>>, res |-> Return("rollback", "False"), reg |-> registry]
    ELSE LET command == bulk_install_command(backup_file)
         IN [cmds |-> IF out = "nonzero"
                      THEN <<Cmd(command, out), Cmd(command, out)>>
                      ELSE <<Cmd(command, out)>>,
             res |-> CASE out = "ok" -> Return("rollback", "True")
                       [] out = "nonzero" -> Return("rollback", "False")
                       [] out = "oserror" -> Raise("rollback", "OSError"),
             reg |-> Pip(command, out, registry)]

\* lines 223-243
rollback(backup_file, out) ==
    IF ~files[backup_file].exists
    THEN [cmds |-> <<>>, res |-> Return("rollback", "False"), reg |-> registry]
    ELSE LET command == bulk_install_command(backup_file)
         IN [cmds |-> <<Cmd(command, out)>>,
             res |-> CASE out = "ok" -> Return("rollback", "True")
                       [] out = "nonzero" -> Return("rollback", "False")
                       [] out = "oserror" -> Raise("rollback", "OSError"),
             reg |-> Pip(command, out, registry)]

RollbackCall(limit) ==
    \E backup_file \in FileNames, out \in RunOutcomes :
      LET r == rollback(backup_file, out)
      IN /\ Call(limit, "rollback", <<backup_file>>)
         /\ ~files[backup_file].exists => out = "ok"
         /\ cmds' = r.cmds
         /\ registry' = r.reg
         /\ result' = r.res
         /\ updates' = <<>>
         /\ attempts' = <<>>
         /\ NoFrame
         /\ NoList
         /\ UNCHANGED <<last_backup, files, clock, backups>>

Rollback == RollbackCall(MaxOps)

\* ----------------------------------------------- install_from_requirements
\* line 17: logger is a logging.Logger object, which has no __call__
LoggerIsCallable == FALSE

\* lines 164-179; line 165 calls logger(...) itself instead of one of its
\* methods, so the statement raises TypeError before "return False"
install_from_requirements(filename, out) ==
    IF ~files[filename].exists
    THEN [cmds |-> <<>>,
          res |-> IF LoggerIsCallable
                  THEN Return("install_from_requirements", "False")
                  ELSE Raise("install_from_requirements", "TypeError"),
          reg |-> registry]
    ELSE LET command == bulk_install_command(filename)
         IN [cmds |-> <<Cmd(command, out)>>,
             res |-> CASE out = "ok" ->
                            Return("install_from_requirements", "True")
                       [] out = "nonzero" ->
                            Return("install_from_requirements", "False")
                       [] out = "oserror" ->
                            Raise("install_from_requirements", "OSError"),
             reg |-> Pip(command, out, registry)]

InstallFromRequirements ==
    \E filename \in {"requirements_updated.txt", "requirements.txt", "backup.txt"},
       out \in RunOutcomes :
      LET r == install_from_requirements(filename, out)
      IN /\ Begin("install_from_requirements", <<filename>>)
         /\ ~files[filename].exists => out = "ok"
         /\ cmds' = r.cmds
         /\ registry' = r.reg
         /\ result' = r.res
         /\ updates' = <<>>
         /\ attempts' = <<>>
         /\ NoFrame
         /\ NoList
         /\ UNCHANGED <<last_backup, files, clock, backups>>

\* --------------------------------------------------- get_outdated_packages
\* what "pip list --outdated --format=json" can report for a registry: the
\* packages whose installed version is not the newest, in any order
RECURSIVE Orderings(_)
Orderings(S) ==
    IF S = {} THEN {<<>>}
    ELSE UNION {{<<x>> \o t : t \in Orderings(S \ {x})} : x \in S}

Record(p, reg) == [name |-> p, version |-> reg[p], latest_version |-> NewVersion]

Inventories(reg) ==
    {[i \in 1..Len(o) |-> Record(o[i], reg)] :
        o \in Orderings({p \in Packages : reg[p] # NewVersion})}

\* how the query can end: exit zero with a JSON list, exit zero with output
\* json.loads rejects, exit non-zero, process cannot be started
QueryOutcomes == {"ok", "badjson", "nonzero", "oserror"}

\* get_outdated_packages returning the list without its first record
get_outdated_packages_partial(out, reported) ==
    [cmd |-> Cmd(list_command, out),
     packages |-> IF out = "ok" /\ reported # <<>> THEN Tail(reported) ELSE <<>>,
     res |-> CASE out = "ok" -> Return("get_outdated_packages", "list")
               [] out = "badjson" -> Raise("get_outdated_packages", "JSONDecodeError")
               [] out = "nonzero" -> Raise("get_outdated_packages", "CalledProcessError")
               [] out = "oserror" -> Raise("get_outdated_packages", "OSError")]

\* lines 42-52: the parsed list is returned as it is; CalledProcessError is
\* logged and raised again, nothing else is caught
get_outdated_packages(out, reported) ==
    [cmd |-> Cmd(list_command, out),
     packages |-> IF out = "ok" THEN reported ELSE <<>>,
     res |-> CASE out = "ok" -> Return("get_outdated_packages", "list")
               [] out = "badjson" -> Raise("get_outdated_packages", "JSONDecodeError")
               [] out = "nonzero" -> Raise("get_outdated_packages", "CalledProcessError")
               [] out = "oserror" -> Raise("get_outdated_packages", "OSError")]

GetOutdatedPackages ==
    \E out \in QueryOutcomes, reported \in Inventories(registry) :
      LET r == get_outdated_packages(out, reported)
      IN /\ Begin("get_outdated_packages", <<>>)
         /\ cmds' = <<r.cmd>>
         /\ result' = r.res
         /\ returned' = r.packages
         /\ stdout' = IF out = "ok" THEN reported ELSE <<>>
         /\ packages' = <<>>
         /\ target' = <<>>
         /\ updates' = <<>>
         /\ attempts' = <<>>
         /\ NoFrame
         /\ UNCHANGED <<last_backup, files, registry, clock, backups>>

\* -------------------------------------------------------- update_from_file
\* text is a sequence of one-character strings
IsSpace(c) == c \in {" ", "\t", "\n", "\r"}

RECURSIVE lstrip(_)
lstrip(t) == IF t # <<>> /\ IsSpace(Head(t)) THEN lstrip(Tail(t)) ELSE t

RECURSIVE rstrip(_)
rstrip(t) ==
    IF t # <<>> /\ IsSpace(t[Len(t)]) THEN rstrip(SubSeq(t, 1, Len(t) - 1)) ELSE t

\* str.strip()
strip(t) == rstrip(lstrip(t))

\* str.startswith(prefix)
startswith(t, prefix) ==
    Len(t) >= Len(prefix) /\ SubSeq(t, 1, Len(prefix)) = prefix

\* str.split(sep)[0]: the text before the first occurrence of sep
RECURSIVE split0(_, _)
split0(t, sep) ==
    IF t = <<>> \/ startswith(t, sep) THEN <<>>
    ELSE <<Head(t)>> \o split0(Tail(t), sep)

\* read_targets without the split at ">="
RECURSIVE read_targets_unpinned(_)
read_targets_unpinned(lines) ==
    IF lines = <<>> THEN <<>>
    ELSE LET line == strip(Head(lines))
         IN (IF line # <<>> /\ ~startswith(line, <<"#">>)
             THEN <<strip(split0(line, <<"=", "=">>))>>
             ELSE <<>>) \o read_targets_unpinned(Tail(lines))

\* lines 101-107: the names kept from the lines of the file, in file order
RECURSIVE read_targets(_)
read_targets(lines) ==
    IF lines = <<>> THEN <<>>
    ELSE LET line == strip(Head(lines))
         IN (IF line # <<>> /\ ~startswith(line, <<"#">>)
             THEN <<strip(split0(split0(line, <<"=", "=">>), <<">", "=">>))>>
             ELSE <<>>) \o read_targets(Tail(lines))

\* lines the target file may hold
TargetLines ==
    {<<"#", " ", "c", "\n">>,
     <<"\n">>,
     <<"r", "e", "q", "u", "e", "s", "t", "s", "=", "=", "2", ".", "0", "\n">>,
     <<"f", "l", "a", "s", "k", ">", "=", "2", ".", "0", "\n">>,
     <<" ", "f", "l", "a", "s", "k", " ">>}

TargetFiles ==
    {<<>>} \cup {<<a>> : a \in TargetLines}
           \cup {<<a, b>> : a \in TargetLines, b \in TargetLines}

\* how the path can be found: no such file, a file open() cannot read, a file
\* that is read
PathStates == {"missing", "unreadable", "readable"}

\* the dict of lines 94, 110, 114
DictVal(success, failed) ==
    "{success:" \o ToString(success) \o ",failed:" \o ToString(failed) \o "}"

\* lines 92-116; line 116 calls self.update_target, but PyUpdater defines no
\* such method (lines 20-283): looking the attribute up raises AttributeError
update_from_file(path_state, lines) ==
    LET names == IF path_state = "readable" THEN read_targets(lines) ELSE <<>>
    IN [names |-> names,
        res |-> IF names = <<>>
                THEN Return("update_from_file", DictVal(0, 0))
                ELSE Raise("update_from_file", "AttributeError")]

UpdateFromFileCall(limit, Files) ==
    \E path_state \in PathStates, lines \in Files :
      LET r == update_from_file(path_state, lines)
      IN /\ Call(limit, "update_from_file", <<"targets.txt">>)
         /\ path_state # "readable" => lines = <<>>
         /\ packages' = r.names
         /\ target' = lines
         /\ result' = r.res
         /\ cmds' = <<>>
         /\ updates' = <<>>
         /\ attempts' = <<>>
         /\ returned' = <<>>
         /\ stdout' = <<>>
         /\ NoFrame
         /\ UNCHANGED <<last_backup, files, registry, clock, backups>>

UpdateFromFile == UpdateFromFileCall(MaxOps, TargetFiles)

\* -------------------------------------------------------------- update_all
\* line 54: update_package's parameters after self, none with a default
update_package_params == <<"package_name", "current_version", "latest_version">>

\* line 204: the arguments update_all passes to self.update_package
update_all_call_args(pkg) == <<pkg.name>>

\* a call binds only if it passes one argument per parameter
Binds(passed, params) == Len(passed) = Len(params)

Running(name) == [op |-> name, kind |-> "running", val |-> None]

\* update_all_inventory with the exception of a failed query swallowed: the
\* loop runs on whatever list is at hand
update_all_inventory_swallow(export, out, reported) ==
    [cmds |-> <<Cmd(list_command, out)>>,
     packages |-> reported,
     fs |-> files,
     pc |-> IF reported # <<>> THEN "loop" ELSE "idle",
     res |-> IF reported = <<>> THEN Return("update_all", None)
             ELSE Running("update_all")]

\* update_all_inventory without the early return of lines 198-200: on an
\* empty inventory the loop runs zero times and the export follows
update_all_inventory_no_early_return(export, out, reported) ==
    LET r == get_outdated_packages(out, reported)
        g == generate_requirements("requirements.txt", "ok", "ok", registry, files)
    IN [cmds |-> IF r.res.kind = "return" /\ r.packages = <<>> /\ export
                 THEN <<r.cmd, g.cmd>> ELSE <<r.cmd>>,
        packages |-> r.packages,
        fs |-> IF r.res.kind = "return" /\ r.packages = <<>> /\ export
               THEN g.fs ELSE files,
        pc |-> IF r.res.kind = "return" /\ r.packages # <<>> THEN "loop" ELSE "idle",
        res |-> IF r.res.kind = "raise" THEN Raise("update_all", r.res.val)
                ELSE IF r.packages = <<>> THEN Return("update_all", None)
                ELSE Running("update_all")]

\* lines 197-200: the inventory query is the first statement; an exception of
\* get_outdated_packages leaves update_all at once, an empty list makes it
\* return
update_all_inventory(export, out, reported) ==
    LET r == get_outdated_packages(out, reported)
    IN [cmds |-> <<r.cmd>>,
        packages |-> r.packages,
        fs |-> files,
        pc |-> IF r.res.kind = "return" /\ r.packages # <<>> THEN "loop" ELSE "idle",
        res |-> IF r.res.kind = "raise" THEN Raise("update_all", r.res.val)
                ELSE IF r.packages = <<>> THEN Return("update_all", None)
                ELSE Running("update_all")]

UpdateAll_Inventory ==
    \E export \in BOOLEAN, want \in BOOLEAN, out \in QueryOutcomes,
       reported \in Inventories(registry) :
      LET r == update_all_inventory(export, out, reported)
      IN /\ Begin("update_all", <<ToString(export)>>)
         /\ export_requirements' = export
         /\ want_rollback' = want
         /\ cmds' = r.cmds
         /\ files' = r.fs
         /\ outdated' = r.packages
         /\ pc' = r.pc
         /\ idx' = IF r.pc = "loop" THEN 1 ELSE 0
         /\ result' = r.res
         /\ updates' = <<>>
         /\ attempts' = <<>>
         /\ returned' = <<>>
         /\ packages' = <<>>
         /\ target' = <<>>
         /\ stdout' = IF out = "ok" THEN reported ELSE <<>>
         /\ UNCHANGED <<last_backup, registry, clock, backups>>

\* update_all_iteration with a recovery step added: when the call of line 204
\* fails, the environment is restored from backup.txt
update_all_iteration_rollback(pkg, last, export, out, out2, wr) ==
    [cmds |-> <<Cmd(bulk_install_command("backup.txt"), out)>>, upd |-> <<>>,
     reg |-> registry, fs |-> files, pc |-> "idle",
     res |-> Raise("update_all", "TypeError")]

\* lines 202-207: one iteration of the loop and, after the last one, the
\* export.  The call of line 204 passes one argument for three parameters, so
\* evaluating it raises TypeError and update_all ends there
update_all_iteration(pkg, last, export, out, out2, wr) ==
    LET a == update_all_call_args(pkg)
    IN IF ~Binds(a, update_package_params)
       THEN [cmds |-> <<>>, upd |-> <<>>, reg |-> registry, fs |-> files,
             pc |-> "idle", res |-> Raise("update_all", "TypeError")]
       ELSE LET u == update_package(a[1], a[2], a[3], out, registry)
                g == generate_requirements("requirements.txt", out2, wr,
                                           u.reg, files)
                upd == <<[name |-> a[1], latest |-> a[3], res |-> u.res]>>
            IN IF u.res.kind = "raise"
               THEN [cmds |-> <<u.cmd>>, upd |-> upd, reg |-> u.reg, fs |-> files,
                     pc |-> "idle", res |-> Raise("update_all", u.res.val)]
               ELSE IF ~last
               THEN [cmds |-> <<u.cmd>>, upd |-> upd, reg |-> u.reg, fs |-> files,
                     pc |-> "loop", res |-> Running("update_all")]
               ELSE IF export
               THEN [cmds |-> <<u.cmd, g.cmd>>, upd |-> upd, reg |-> u.reg,
                     fs |-> g.fs, pc |-> "idle", res |-> Return("update_all", None)]
               ELSE [cmds |-> <<u.cmd>>, upd |-> upd, reg |-> u.reg, fs |-> files,
                     pc |-> "idle", res |-> Return("update_all", None)]

UpdateAll_Loop ==
    /\ pc = "loop"
    /\ \E out \in RunOutcomes, out2 \in RunOutcomes, wr \in WriteOutcomes :
         LET r == update_all_iteration(outdated[idx], idx = Len(outdated),
                                       export_requirements, out, out2, wr)
         IN /\ Len(r.cmds) < 2 => out2 = "ok" /\ wr = "ok"
            /\ Len(r.cmds) < 1 => out = "ok"
            /\ out2 # "ok" => wr = "ok"
            /\ attempts' = Append(attempts, outdated[idx].name)
            /\ cmds' = cmds \o r.cmds
            /\ updates' = updates \o r.upd
            /\ registry' = r.reg
            /\ files' = r.fs
            /\ pc' = r.pc
            /\ idx' = IF r.pc = "loop" THEN idx + 1 ELSE idx
            /\ result' = r.res
            /\ UNCHANGED <<last_backup, clock, outdated, export_requirements,
                           want_rollback, op, args, registry0, returned, packages,
                           stdout, target, backups, nops>>

Next ==
    \/ UpdatePackage
    \/ CreateBackup
    \/ GenerateRequirements
    \/ Rollback
    \/ InstallFromRequirements
    \/ GetOutdatedPackages
    \/ UpdateFromFile
    \/ UpdateAll_Inventory
    \/ UpdateAll_Loop

Spec == Init /\ [][Next]_vars

\* ------------------------------------------------- snapshot, updates, restore
\* the updates made between a snapshot and its restore
MaxUpdates == 2
\* one create_backup, the updates, and two rollback calls
RoundTripCalls == MaxUpdates + 3

\* a package of the universe may be absent from the environment
InitRoundTrip == InitWith([Packages -> Versions \cup {NoVersion}])

\* the caller takes the snapshot first
RoundTripSnapshot == nops = 0 /\ CreateBackupCall(RoundTripCalls)

\* then updates packages one at a time
RoundTripUpdate ==
    /\ op \in {"create_backup", "update_package"}
    /\ nops <= MaxUpdates
    /\ UpdatePackageCall(RoundTripCalls)

\* then restores, possibly more than once
RoundTripRestore == nops >= 1 /\ RollbackCall(RoundTripCalls)

NextRoundTrip == RoundTripSnapshot \/ RoundTripUpdate \/ RoundTripRestore

SpecRoundTrip == InitRoundTrip /\ [][NextRoundTrip]_vars

\* ------------------------------------------------------ reading target files
\* the longest line of a one-line target file
MaxLineLen == 5
\* the most lines of a target file made of TargetLines
MaxLines == 4

\* the characters of a line: a letter, the characters of the pin operators,
\* the comment mark and white space
Alphabet == {"a", "=", ">", "#", " "}

\* every text of at most n characters
RECURSIVE Texts(_)
Texts(n) ==
    IF n = 0 THEN {<<>>}
    ELSE LET T == Texts(n - 1)
         IN T \cup {Append(t, c) : t \in {u \in T : Len(u) = n - 1},
                                    c \in Alphabet}

\* every file of at most n of the lines L
RECURSIVE FilesOf(_, _)
FilesOf(L, n) ==
    IF n = 0 THEN {<<>>}
    ELSE LET F == FilesOf(L, n - 1)
         IN F \cup {Append(f, l) : f \in {g \in F : Len(g) = n - 1}, l \in L}

ParseFiles ==
    {<<l>> : l \in Texts(MaxLineLen)} \cup FilesOf(TargetLines, MaxLines)

\* update_from_file called once on any of these files
ReadTargetFile == nops = 0 /\ UpdateFromFileCall(1, ParseFiles)

NextParse == ReadTargetFile

SpecParse == Init /\ [][NextParse]_vars

\* ------------------------------------------------------------ vocabulary
\* an update cycle is one call of update_all
InCycle == op = "update_all"
CycleEnded == op = "update_all" /\ pc = "idle"

\* a snapshot was created successfully by the call now running (or last made)
SnapshotInThisCall ==
    \E i \in 1..Len(backups) : backups[i].call = nops /\ backups[i].ok

\* the call made just before this one was a create_backup that failed
SnapshotFailedJustBefore ==
    /\ backups # <<>>
    /\ ~backups[Len(backups)].ok
    /\ backups[Len(backups)].call = nops - 1

RestoreCalls == {i \in 1..Len(cmds) : IsRestore(cmds[i].argv)}
InstallCalls == {i \in 1..Len(cmds) : IsInstall(cmds[i].argv)}

\* the updates of this cycle that did not succeed: the call raised, or
\* update_package returned False
FailedUpdates ==
    {i \in 1..Len(attempts) : i > Len(updates) \/ updates[i].res.val # "True"}
SucceededUpdates ==
    {i \in 1..Len(updates) : updates[i].res.val = "True"}

\* an OperationSummary as a returned value
SummaryVal(total, succeeded, failed, rolledBack) ==
    "{total:" \o ToString(total) \o ",succeeded:" \o ToString(succeeded)
        \o ",failed:" \o ToString(failed) \o ",rolledBack:"
        \o (IF rolledBack THEN "true" ELSE "false") \o "}"

\* the most recently successfully created snapshot, None if there is none
RECURSIVE LastGood(_)
LastGood(log) ==
    IF log = <<>> THEN None
    ELSE IF log[Len(log)].ok THEN log[Len(log)].filename
    ELSE LastGood(SubSeq(log, 1, Len(log) - 1))

C3_EveryRecordAttempted ==
    (CycleEnded /\ outdated # <<>>) =>
      /\ Len(updates) = Len(outdated)
      /\ \A i \in 1..Len(updates) : updates[i].name = outdated[i].name

C5_SummaryAddsUp ==
    /\ (CycleEnded /\ outdated # <<>>) =>
         /\ result.kind = "return"
         /\ \E rb \in BOOLEAN :
              result.val = SummaryVal(Len(outdated), Cardinality(SucceededUpdates),
                                      Cardinality(FailedUpdates), rb)
         /\ Cardinality(SucceededUpdates) + Cardinality(FailedUpdates)
               = Len(outdated)
    /\ (op = "update_from_file" /\ packages # <<>>) =>
         /\ result.kind = "return"
         /\ \E succeeded \in 0..Len(packages) :
              result.val = DictVal(succeeded, Len(packages) - succeeded)

\* ---------------------------------------------------------------------- C6
EmptyInventoryCycle ==
    CycleEnded /\ cmds # <<>> /\ cmds[1].out = "ok" /\ outdated = <<>>

C7_UpdatePackageNeverRaises ==
    op = "update_package" =>
      /\ result.kind = "return"
      /\ result.val = (IF cmds[1].out = "ok" THEN "True" ELSE "False")

\* ---------------------------------------------------------------------- C8
\* C8: last_backup is the file name of the most recent create_backup call
\* that succeeded (None if none did), and create_backup returns that file
\* name on success and None on failure.
C8_LastBackupIsLastSuccess ==
    /\ last_backup = LastGood(backups)
    /\ op = "create_backup" =>
         result = Return("create_backup",
                         IF backups[Len(backups)].ok
                         THEN backups[Len(backups)].filename ELSE None)

C8_Witness ==
    /\ op = "create_backup"
    /\ Len(backups) >= 2
    /\ ~backups[Len(backups)].ok
    /\ backups[Len(backups) - 1].ok
    /\ backups[Len(backups)].filename # backups[Len(backups) - 1].filename
    /\ last_backup = backups[Len(backups) - 1].filename

\* ---------------------------------------------------------------------- C9
\* C9: rollback and install_from_requirements never raise; they return False
\* without running pip when the file is missing, False when pip exits
\* non-zero, and True only when the file exists and pip exited zero.
C9_RestoreFailsGracefully ==
    op \in {"rollback", "install_from_requirements"} =>
      /\ result.kind = "return"
      /\ ~files[args[1]].exists => (result.val = "False" /\ cmds = <<>>)
      /\ (cmds # <<>> /\ cmds[1].out = "nonzero") => result.val = "False"
      /\ result.val = "True" =>
           (files[args[1]].exists /\ cmds # <<>> /\ cmds[1].out = "ok")

C11_ConcreteVersionUpgrades ==
    (op = "update_package" /\ args[3] \in Versions /\ cmds[1].out = "ok") =>
      /\ result = Return("update_package", "True")
      /\ \E i \in 1..Len(cmds[1].argv) : cmds[1].argv[i] = "--upgrade"
      /\ \E i \in 1..Len(cmds[1].argv) : cmds[1].argv[i] = args[1]

\* --------------------------------------------------------------------- C12
InventoryFailed ==
    InCycle /\ cmds # <<>> /\ cmds[1].argv = list_command /\ cmds[1].out # "ok"

\* C12: a cycle whose inventory query fails (non-zero exit, output that
\* cannot be parsed, process not started) ends at once with the error raised
\* to the caller: no installer call, no restore, no other pip call, registry
\* as it was.
C12_InventoryFailureEndsCycle ==
    InventoryFailed =>
      /\ pc = "idle"
      /\ result.kind = "raise"
      /\ result.val = (CASE cmds[1].out = "nonzero" -> "CalledProcessError"
                         [] cmds[1].out = "badjson" -> "JSONDecodeError"
                         [] cmds[1].out = "oserror" -> "OSError")
      /\ Len(cmds) = 1
      /\ attempts = <<>> /\ updates = <<>>
      /\ registry = registry0

C12_Witness ==
    InventoryFailed /\ cmds[1].out = "badjson" /\ result.kind = "raise"

\* --------------------------------------------------------------------- C13
\* C13: update_from_file always returns a summary and never raises: the
\* summary is {success:0, failed:0}, with no pip call, when no name was read
\* (file missing, unreadable or without a valid name); when k names were read
\* each is attempted and success + failed = k.
C13_UpdateFromFileSummary ==
    op = "update_from_file" =>
      /\ result.kind = "return"
      /\ packages = <<>> => (result.val = DictVal(0, 0) /\ cmds = <<>>)
      /\ packages # <<>> =>
           /\ Len(updates) = Len(packages)
           /\ \E succeeded \in 0..Len(packages) :
                result.val = DictVal(succeeded, Len(packages) - succeeded)

\* --------------------------------------------------------------------- C14
\* the files some create_backup call wrote successfully
SnapshotFiles == {backups[i].filename : i \in {j \in 1..Len(backups) : backups[j].ok}}

\* the call just made opened file f for writing
WritesTo(f) ==
    \/ /\ op = "create_backup"
       /\ backups[Len(backups)].call = nops
       /\ backups[Len(backups)].filename = f
    \/ op = "generate_requirements" /\ args[1] = f

\* C14 as stated: no step of any operation changes the content of a file
\* that a snapshot was successfully written to.
C14_SnapshotNeverChanges ==
    [][\A f \in SnapshotFiles : files'[f] = files[f]]_vars

\* C14 amended: no operation other than a write on the same file name changes
\* a file: rollback, install_from_requirements, update_package, update_all,
\* get_outdated_packages and update_from_file leave every file as it is, and
\* a file changes only in a create_backup or generate_requirements call whose
\* file name (explicit or derived from the clock) is that file's.
C14_OnlyAWriteOnTheSameName ==
    [][\A f \in FileNames : files'[f] # files[f] => WritesTo(f)']_vars

C14_Witness ==
    /\ op = "rollback"
    /\ result = Return("rollback", "True")
    /\ args[1] \in SnapshotFiles
    /\ files[args[1]] = FileOf(backups[Len(backups)].reg)

\* --------------------------------------------------------------------- C15
\* the first call was a create_backup that succeeded, and the call just made
\* is a rollback from its file that returned True
RestoredFirstSnapshot ==
    /\ backups # <<>> /\ backups[1].ok /\ backups[1].call = 1
    /\ op = "rollback"
    /\ args[1] = backups[1].filename
    /\ result = Return("rollback", "True")

\* C15 as stated: whatever update_package calls were made since the snapshot,
\* after a successful rollback from it the registry equals the registry at
\* the time of the snapshot.
C15_RoundTripExact ==
    RestoredFirstSnapshot => registry = backups[1].reg

\* C15 amended: after a successful rollback from the snapshot every package
\* that was installed when the snapshot was taken has its version of that
\* time again, a package that was not installed then is as the updates left
\* it, and a second successful rollback from the same file leaves the
\* registry unchanged.
C15_RoundTripOfInstalled ==
    /\ [](RestoredFirstSnapshot =>
            \A p \in Packages :
              registry[p] = IF backups[1].reg[p] # NoVersion
                            THEN backups[1].reg[p] ELSE registry0[p])
    /\ [][(RestoredFirstSnapshot /\ RestoredFirstSnapshot') =>
            registry' = registry]_vars

C15_Witness ==
    /\ RestoredFirstSnapshot
    /\ nops >= 4
    /\ registry0 # backups[1].reg
    /\ registry = backups[1].reg
    /\ \E p \in Packages : registry[p] = NoVersion

Trimmed(line) ==
    LET black == {i \in 1..Len(line) : ~IsSpace(line[i])}
    IN IF black = {} THEN <<>>
       ELSE SubSeq(line, CHOOSE i \in black : \A j \in black : i <= j,
                         CHOOSE i \in black : \A j \in black : i >= j)

\* a line that is neither empty after trimming nor a comment
IsTargetLine(line) == Trimmed(line) # <<>> /\ Trimmed(line)[1] # "#"

IsPinChar(c) == c \in {"=", ">"}

\* t holds one of the operators == and >=
HasPin(t) == \E i \in 1..(Len(t) - 1) : IsPinChar(t[i]) /\ t[i + 1] = "="

\* t is name==version or name>=version, where neither the name nor the
\* version holds a character of the operators
IsPinOf(t, name) ==
    \E i \in 2..(Len(t) - 2) :
      /\ IsPinChar(t[i]) /\ t[i + 1] = "="
      /\ \A j \in (1..(i - 1)) \cup ((i + 2)..Len(t)) : ~IsPinChar(t[j])
      /\ name = Trimmed(SubSeq(t, 1, i - 1))
      /\ name # <<>>

\* C17: the names update_from_file reads from a readable file are, in file
\* order, one for each line that is neither empty after trimming nor begins
\* with '#': the trimmed line itself when it holds no pin operator, and the
\* name when the line is name==version or name>=version.
C17_TargetFileParsing ==
    op = "update_from_file" =>
      LET kept == SelectSeq(target, IsTargetLine)
      IN /\ Len(packages) = Len(kept)
         /\ \A k \in 1..Len(kept) :
              LET t == Trimmed(kept[k])
              IN /\ ~HasPin(t) => packages[k] = t
                 /\ \A i \in 1..Len(t) :
                      IsPinOf(t, Trimmed(SubSeq(t, 1, i))) =>
                        packages[k] = Trimmed(SubSeq(t, 1, i))

C17_Witness ==
    /\ op = "update_from_file"
    /\ target = <<<<"#", " ", "c", "\n">>,
                  <<"\n">>,
                  <<"r", "e", "q", "u", "e", "s", "t", "s", "=", "=", "2", ".", "0", "\n">>,
                  <<"f", "l", "a", "s", "k", ">", "=", "2", ".", "0", "\n">>>>
    /\ packages = <<<<"r", "e", "q", "u", "e", "s", "t", "s">>,
                    <<"f", "l", "a", "s", "k">>>>

\* --------------------------------------------------------------------- C18
\* C18: get_outdated_packages runs pip exactly once, with the list command,
\* and either returns the whole list pip reported, record for record in the
\* reported order, or raises an error and hands no list back.
C18_WholeListOrError ==
    op = "get_outdated_packages" =>
      /\ Len(cmds) = 1
      /\ cmds[1].argv = list_command
      /\ result.kind \in {"return", "raise"}
      /\ result.kind = "return" => (cmds[1].out = "ok" /\ returned = stdout)
      /\ result.kind = "raise" => (cmds[1].out # "ok" /\ returned = <<>>)

C18_Witness ==
    /\ op = "get_outdated_packages"
    /\ result.kind = "return"
    /\ Len(stdout) = 2
    /\ stdout[1].name = "requests" /\ stdout[2].name = "flask"
    /\ returned = stdout

\* --------------------------------------------------------------------- C19
ExportCalls == {i \in 1..Len(cmds) : cmds[i].argv = freeze_command}

\* C19: a cycle whose inventory query succeeded runs the export (pip freeze
\* of generate_requirements) exactly once, as its last pip call and after
\* every record was attempted, when export_requirements is true and the
\* inventory is not empty, and never otherwise.
C19_ExportOnceAfterAllAttempts ==
    (CycleEnded /\ cmds # <<>> /\ cmds[1].out = "ok") =>
      /\ Cardinality(ExportCalls) =
           (IF export_requirements /\ outdated # <<>> THEN 1 ELSE 0)
      /\ \A i \in ExportCalls :
           i = Len(cmds) /\ Len(attempts) = Len(outdated)

\* --------------------------------------------------------------------- C20
\* the call made just before this one was a create_backup that succeeded
SnapshotSucceededJustBefore ==
    /\ backups # <<>>
    /\ backups[Len(backups)].ok
    /\ backups[Len(backups)].call = nops - 1

\* C20: a cycle that follows a successful snapshot and in which every pip
\* call exits zero ends by returning to the caller (Done), not by raising
\* (Aborted after Inventorying).
C20_CycleReachesDone ==
    (CycleEnded /\ SnapshotSucceededJustBefore
       /\ \A i \in 1..Len(cmds) : cmds[i].out = "ok") =>
      result.kind = "return"
====
